---- MODULE Spec2Model ----
(***************************************************************************)
(* Verification model of the tree widget: TreeItem construction            *)
(* (tree_item.rs), the flatten traversal (flatten.rs) and the viewport     *)
(* computation of Tree::render (lib.rs) over a TreeState.                  *)
(*                                                                         *)
(* Three specifications share the module:                                  *)
(*   Spec        - a TreeState driven by the host's calls and rendered by  *)
(*                 Tree::render;                                           *)
(*   SpecItem    - a TreeItem built and mutated through its public API;    *)
(*   SpecFlatten - flatten applied to bounded trees and open sets.         *)
(*                                                                         *)
(* The widget is single-threaded and synchronous: one call runs at a time. *)
(* A call is one atomic step that also records, in `last` (or `call`), its *)
(* arguments, the state it started from and its locals; the step that      *)
(* returns to the host drops that record, and only then the next call      *)
(* starts.  Of the painting loop of Tree::render (lib.rs 234-304) the model *)
(* keeps the rows it visits and the height it accumulates; the cells it    *)
(* writes to the buffer are left out.                                      *)
(***************************************************************************)
EXTENDS Integers, Sequences, FiniteSets

VARIABLES
    opened,      \* TreeState.opened: set of identifier paths
    selected,    \* TreeState.selected: identifier path, <<>> = none
    offset,      \* TreeState.offset
    ensure_selected_in_view_on_next_render,  \* TreeState flag ("reveal_pending")
    last,        \* the call in progress: its arguments, the state it started from, its locals
    node,        \* SpecItem: the TreeItem the host holds
    call,        \* SpecItem: the last TreeItem / Tree construction call and its result
    fl           \* SpecFlatten: inputs and result of one flatten call

stateVars == <<opened, selected, offset, ensure_selected_in_view_on_next_render>>
renderVars == <<opened, selected, offset, ensure_selected_in_view_on_next_render, last>>
itemVars == <<node, call>>
vars == <<opened, selected, offset, ensure_selected_in_view_on_next_render, last, node, call, fl>>

(***************************************************************************)
(* Bounds of the model.                                                    *)
(***************************************************************************)
MaxRowHeight == 2      \* row heights are drawn from 0..MaxRowHeight
MaxAreaHeight == 2     \* area heights are drawn from 0..MaxAreaHeight
MaxOffset == 2         \* scroll_down is capped at this offset
MaxNodes == 3          \* trees handed to render have at most this many nodes
MaxFlattenNodes == 5   \* SpecFlatten: trees have at most this many nodes
MaxOpen == 3           \* SpecFlatten: open sets have at most this many paths
MaxChildren == 2       \* SpecItem: a node is given or grows to at most this many children

Ids == {1, 2}
Heights == 0 .. MaxRowHeight

Max(a, b) == IF a > b THEN a ELSE b
Min(a, b) == IF a < b THEN a ELSE b

(***************************************************************************)
(* TreeItem { identifier, content, children }.  Of the content only its    *)
(* rendered height is kept (TreeItem::height).                             *)
(***************************************************************************)
TreeItem(identifier, height, children) ==
    [identifier |-> identifier, height |-> height, children |-> children]

\* TreeItem::new_leaf
new_leaf(identifier, height) == TreeItem(identifier, height, <<>>)

\* the HashSet of the identifiers of a list of items
IdentifierSet(items) == {items[i].identifier : i \in 1 .. Len(items)}

(***************************************************************************)
(* flatten(open_identifiers, items, current): the for loop over items is   *)
(* the recursion on Tail(items).                                           *)
(***************************************************************************)
Flattened(identifier, item) == [identifier |-> identifier, item |-> item]

\* a flatten that pushes a node's row after the rows of its children
RECURSIVE flatten_children_first(_, _, _)
flatten_children_first(open_identifiers, items, current) ==
    IF items = <<>> THEN <<>>
    ELSE LET item == Head(items)
             child_identifier == Append(current, item.identifier)
             child_result ==
                 IF child_identifier \in open_identifiers
                 THEN flatten_children_first(open_identifiers, item.children,
                                             child_identifier)
                 ELSE <<>>
         IN  child_result \o <<Flattened(child_identifier, item)>>
                 \o flatten_children_first(open_identifiers, Tail(items), current)

RECURSIVE flatten(_, _, _)
flatten(open_identifiers, items, current) ==
    IF items = <<>> THEN <<>>
    ELSE LET item == Head(items)
             child_identifier == Append(current, item.identifier)
             child_result ==
                 IF child_identifier \in open_identifiers
                 THEN flatten(open_identifiers, item.children, child_identifier)
                 ELSE <<>>
         IN  <<Flattened(child_identifier, item)>> \o child_result
                 \o flatten(open_identifiers, Tail(items), current)

\* Flattened::depth
depth(flattened) == Len(flattened.identifier) - 1

(***************************************************************************)
(* Bounded sets of trees.                                                  *)
(***************************************************************************)
SeqsUpTo(S, n) == UNION {[1 .. k -> S] : k \in 0 .. n}

UniqueLists(S) ==
    {t : t \in {s \in SeqsUpTo(S, Cardinality(Ids)) :
                    Cardinality(IdentifierSet(s)) = Len(s)}}

Leaves == {new_leaf(i, h) : i \in Ids, h \in Heights}

Level1 == {TreeItem(i, h, c) : i \in Ids, h \in Heights, c \in UniqueLists(Leaves)}

RECURSIVE NodeCount(_)
NodeCount(items) ==
    IF items = <<>> THEN 0
    ELSE 1 + NodeCount(Head(items).children) + NodeCount(Tail(items))

\* lists whose identifiers are 1, 2, ... in order
NumberedLists(S) ==
    {t : t \in {s \in SeqsUpTo(S, Cardinality(Ids)) :
                    \A i \in 1 .. Len(s) : s[i].identifier = i}}

\* the root lists handed to Tree::new and rendered: up to MaxNodes nodes on two
\* levels, siblings numbered in order, every height in Heights; the first root
\* is the one that has children
RenderTrees ==
    LET level1 == {TreeItem(i, h, c) : i \in Ids, h \in Heights,
                                       c \in NumberedLists(Leaves)}
    IN  {t : t \in {u \in NumberedLists(level1) :
                        /\ NodeCount(u) <= MaxNodes
                        /\ \A i \in 2 .. Len(u) : u[i].children = <<>>}}

(***************************************************************************)
(* TreeState and its mutation API (state.rs).                              *)
(***************************************************************************)
Paths == {p \in SeqsUpTo(Ids, 2) : p # <<>>}
OpenPaths == {<<1>>}     \* the paths opened and closed: the root that has children

State == [opened |-> opened, selected |-> selected, offset |-> offset,
          ensure_selected_in_view_on_next_render |->
              ensure_selected_in_view_on_next_render]

NoArea == [width |-> 0, height |-> 0]

\* no call in progress
NoCall == [op |-> "none", arg |-> <<>>, pre |-> <<>>, items |-> <<>>, area |-> NoArea,
           computed |-> FALSE, visible |-> <<>>, selected_index |-> 0,
           start |-> 0, end |-> 0, panic |-> FALSE, ordered |-> TRUE,
           underflow |-> FALSE, painted |-> {}, current_height |-> 0]

Called(op, arg) == [NoCall EXCEPT !.op = op, !.arg = arg, !.pre = State]

\* TreeState::flatten
StateFlatten(items) == flatten(opened, items, <<>>)

\* TreeState::select
select(identifier) ==
    /\ UNCHANGED <<itemVars, fl>>
    /\ selected' = identifier
    /\ ensure_selected_in_view_on_next_render' = TRUE
    /\ last' = Called("select", identifier)
    /\ UNCHANGED <<opened, offset>>

\* TreeState::open
open(identifier) ==
    /\ UNCHANGED <<itemVars, fl>>
    /\ opened' = opened \cup {identifier}
    /\ last' = Called("open", identifier)
    /\ UNCHANGED <<selected, offset, ensure_selected_in_view_on_next_render>>

\* TreeState::close
close(identifier) ==
    /\ UNCHANGED <<itemVars, fl>>
    /\ opened' = opened \ {identifier}
    /\ last' = Called("close", identifier)
    /\ UNCHANGED <<selected, offset, ensure_selected_in_view_on_next_render>>

\* TreeState::toggle
toggle(identifier) ==
    /\ UNCHANGED <<itemVars, fl>>
    /\ opened' = IF identifier \in opened THEN opened \ {identifier}
                 ELSE opened \cup {identifier}
    /\ last' = Called("toggle", identifier)
    /\ UNCHANGED <<selected, offset, ensure_selected_in_view_on_next_render>>

\* TreeState::scroll_up
scroll_up ==
    /\ UNCHANGED <<itemVars, fl>>
    /\ offset' = Max(offset - 1, 0)
    /\ last' = Called("scroll_up", <<>>)
    /\ UNCHANGED <<opened, selected, ensure_selected_in_view_on_next_render>>

\* TreeState::scroll_down (the offset is capped at MaxOffset)
scroll_down ==
    /\ UNCHANGED <<itemVars, fl>>
    /\ offset < MaxOffset
    /\ offset' = offset + 1
    /\ last' = Called("scroll_down", <<>>)
    /\ UNCHANGED <<opened, selected, ensure_selected_in_view_on_next_render>>

(***************************************************************************)
(* Tree::render, lines 185-232: the viewport.  Indices are 0-based as in   *)
(* the source; visible[i] of the source is visible[i + 1] here.            *)
(***************************************************************************)
RowHeight(visible, i) == visible[i + 1].item.height

saturating_sub(a, b) == IF a > b THEN a - b ELSE 0

\* visible.iter().position(|o| o.identifier == state.selected)
Position(visible, identifier) ==
    LET hits == {i \in 0 .. Len(visible) - 1 : visible[i + 1].identifier = identifier}
    IN  IF hits = {} THEN -1
        ELSE CHOOSE i \in hits : \A j \in hits : i <= j

\* a selected index that falls back to the length
SelectedIndex_unwrap_or_len(visible, sel) ==
    IF sel = <<>> THEN 0
    ELSE LET position == Position(visible, sel)
         IN  IF position = -1 THEN Len(visible) ELSE position

\* lines 195-202
SelectedIndex(visible, sel) ==
    IF sel = <<>> THEN 0
    ELSE LET position == Position(visible, sel)
         IN  IF position = -1 THEN 0 ELSE position

\* a start that is clamped to the length but not to the selected row
ClampStart_ignores_selection(visible, off, ensure, selected_index) ==
    Min(off, saturating_sub(Len(visible), 1))

\* a start that is clamped to the selected row whatever the flag
ClampStart_always_reveals(visible, off, ensure, selected_index) ==
    Min(Min(off, saturating_sub(Len(visible), 1)), selected_index)

\* lines 205-209
ClampStart(visible, off, ensure, selected_index) ==
    LET start == Min(off, saturating_sub(Len(visible), 1))
    IN  IF ensure THEN Min(start, selected_index) ELSE start

\* a for loop that tests the height before it adds the row
RECURSIVE GrowEnd_checks_before_adding(_, _, _, _)
GrowEnd_checks_before_adding(visible, end, height, available_height) ==
    IF end >= Len(visible) THEN [end |-> end, height |-> height]
    ELSE IF height > available_height
         THEN [end |-> end, height |-> height]
         ELSE GrowEnd_checks_before_adding(visible, end + 1,
                                           height + RowHeight(visible, end),
                                           available_height)

\* lines 211-220: the for loop over visible.iter().skip(start)
RECURSIVE GrowEnd(_, _, _, _)
GrowEnd(visible, end, height, available_height) ==
    IF end >= Len(visible) THEN [end |-> end, height |-> height]
    ELSE IF height + RowHeight(visible, end) > available_height
         THEN [end |-> end, height |-> height]
         ELSE GrowEnd(visible, end + 1, height + RowHeight(visible, end),
                      available_height)

\* lines 225-228: the inner while loop; visible[start] panics out of bounds
RECURSIVE ShrinkStart(_, _, _, _)
ShrinkStart(visible, start, height, available_height) ==
    IF height > available_height
    THEN IF start >= Len(visible)
         THEN [start |-> start, height |-> height, panic |-> TRUE]
         ELSE ShrinkStart(visible, start + 1,
                          saturating_sub(height, RowHeight(visible, start)),
                          available_height)
    ELSE [start |-> start, height |-> height, panic |-> FALSE]

\* lines 222-229: the outer while loop; visible[end] panics out of bounds.
\* `ordered` records that every visible[start] of the inner loop was read with
\* start < end: the reads of one round are at start .. shrunk.start - 1, made
\* after end += 1.
RECURSIVE RevealSelected(_, _, _, _, _, _, _)
RevealSelected(visible, start, end, height, available_height, ensure, selected_index) ==
    IF ensure /\ selected_index >= end
    THEN IF end >= Len(visible)
         THEN [start |-> start, end |-> end, height |-> height, panic |-> TRUE,
               ordered |-> TRUE]
         ELSE LET shrunk == ShrinkStart(visible, start,
                                        height + RowHeight(visible, end),
                                        available_height)
              IN  IF shrunk.panic
                  THEN [start |-> shrunk.start, end |-> end + 1,
                        height |-> shrunk.height, panic |-> TRUE,
                        ordered |-> shrunk.start <= end + 1]
                  ELSE LET rest == RevealSelected(visible, shrunk.start, end + 1,
                                                  shrunk.height, available_height,
                                                  ensure, selected_index)
                       IN  [rest EXCEPT !.ordered = rest.ordered
                                                    /\ shrunk.start <= end + 1]
    ELSE [start |-> start, end |-> end, height |-> height, panic |-> FALSE,
          ordered |-> TRUE]

\* lines 195-229: selected_index, start and end for a non-empty visible
Viewport(visible, available_height, off, sel, ensure) ==
    LET selected_index == SelectedIndex(visible, sel)
        start == ClampStart(visible, off, ensure, selected_index)
        grown == GrowEnd(visible, start, 0, available_height)
        revealed == RevealSelected(visible, start, grown.end, grown.height,
                                   available_height, ensure, selected_index)
    IN  [selected_index |-> selected_index, start |-> revealed.start,
         end |-> revealed.end, panic |-> revealed.panic,
         ordered |-> revealed.ordered]

\* lines 236-251: the rows visited by
\* visible.iter().skip(state.offset).take(end - start) and the current_height
\* they add up to; `count` is what is left of take's argument
RECURSIVE PaintRows(_, _, _, _, _)
PaintRows(visible, index, count, painted, current_height) ==
    IF count = 0 \/ index >= Len(visible)
    THEN [painted |-> painted, current_height |-> current_height]
    ELSE PaintRows(visible, index + 1, count - 1, painted \cup {index},
                   current_height + RowHeight(visible, index))

\* line 239: end - start is a usize subtraction, which underflows if end < start
Paint(visible, off, start, end) ==
    IF end < start
    THEN [underflow |-> TRUE, painted |-> {}, current_height |-> 0]
    ELSE LET rows == PaintRows(visible, off, end - start, {}, 0)
         IN  [underflow |-> FALSE, painted |-> rows.painted,
              current_height |-> rows.current_height]

\* an early return that looks at the height alone
ReturnsEarly_height_only(area) == area.height < 1

\* line 185: nothing is rendered into an area without width or height
ReturnsEarly(area) == area.width < 1 \/ area.height < 1

\* a commit that leaves the flag as it was
Commit_keeps_flag(v) ==
    /\ offset' = v.start
    /\ UNCHANGED ensure_selected_in_view_on_next_render

\* lines 231-232
Commit(v) ==
    /\ offset' = v.start
    /\ ensure_selected_in_view_on_next_render' = FALSE

\* Tree::render, with `area` the inner area left by the block
render(items, area) ==
    /\ UNCHANGED <<itemVars, fl, opened, selected>>
    /\ IF ReturnsEarly(area)
       THEN /\ last' = [Called("render", <<>>) EXCEPT !.items = items, !.area = area]
            /\ UNCHANGED <<offset, ensure_selected_in_view_on_next_render>>
       ELSE LET visible == StateFlatten(items)
            IN  IF visible = <<>>
                THEN /\ last' = [Called("render", <<>>) EXCEPT
                                    !.items = items, !.area = area]
                     /\ UNCHANGED <<offset, ensure_selected_in_view_on_next_render>>
                ELSE LET v == Viewport(visible, area.height, offset, selected,
                                       ensure_selected_in_view_on_next_render)
                         p == Paint(visible, v.start, v.start, v.end)
                     IN  /\ last' = [Called("render", <<>>) EXCEPT
                                        !.items = items, !.area = area,
                                        !.computed = ~v.panic,
                                        !.visible = visible,
                                        !.selected_index = v.selected_index,
                                        !.start = v.start, !.end = v.end,
                                        !.panic = v.panic,
                                        !.ordered = v.ordered,
                                        !.underflow = ~v.panic /\ p.underflow,
                                        !.painted =
                                            IF v.panic THEN {} ELSE p.painted,
                                        !.current_height =
                                            IF v.panic THEN 0 ELSE p.current_height]
                         /\ IF v.panic
                            THEN UNCHANGED <<offset, ensure_selected_in_view_on_next_render>>
                            ELSE Commit(v)

\* the call returns to the host: its arguments and locals are gone
Return ==
    /\ last # NoCall
    /\ last' = NoCall
    /\ UNCHANGED <<stateVars, itemVars, fl>>

(***************************************************************************)
(* TreeItem::new, TreeItem::add_child, TreeItem::child_mut and Tree::new.  *)
(* A std::io::Result is [ok, value]; an Err carries no item.               *)
(***************************************************************************)
NoItem == [identifier |-> 0, height |-> 0, children |-> <<>>]

Ok(value) == [ok |-> TRUE, value |-> value]
Err == [ok |-> FALSE, value |-> NoItem]

\* a new that compares the two lengths with > instead of !=
new_wrong_comparison(identifier, height, children) ==
    LET identifiers == IdentifierSet(children)
    IN  IF Cardinality(identifiers) > Len(children)
        THEN Err
        ELSE Ok(TreeItem(identifier, height, children))

\* TreeItem::new
new(identifier, height, children) ==
    LET identifiers == IdentifierSet(children)
    IN  IF Cardinality(identifiers) # Len(children)
        THEN Err
        ELSE Ok(TreeItem(identifier, height, children))

\* Tree::new; of the Tree only its items are kept
tree_new(items) ==
    LET identifiers == IdentifierSet(items)
    IN  IF Cardinality(identifiers) # Len(items)
        THEN Err
        ELSE Ok([NoItem EXCEPT !.children = items])

\* an add_child that looks for the identifier among all children but the last
add_child_skips_last(item, child) ==
    LET existing == {item.children[i].identifier : i \in 1 .. Len(item.children) - 1}
    IN  IF child.identifier \in existing
        THEN [ok |-> FALSE, value |-> item]
        ELSE [ok |-> TRUE,
              value |-> [item EXCEPT !.children = Append(item.children, child)]]

\* TreeItem::add_child on `item`; value is the item after the call
add_child(item, child) ==
    LET existing == IdentifierSet(item.children)
    IN  IF child.identifier \in existing
        THEN [ok |-> FALSE, value |-> item]
        ELSE [ok |-> TRUE,
              value |-> [item EXCEPT !.children = Append(item.children, child)]]

\* TreeItem::child_mut: Some(&mut children[index]) or None (0-based index)
child_mut(item, index) == index < Len(item.children)

\* what the holder of the &mut returned by child_mut can do with it:
\* call add_child on the child ...
child_mut_add_child(item, index, child) ==
    LET r == add_child(item.children[index + 1], child)
    IN  [ok |-> r.ok, value |-> [item EXCEPT !.children[index + 1] = r.value]]

\* ... or assign another item through the reference
child_mut_assign(item, index, other) ==
    [item EXCEPT !.children[index + 1] = other]

\* no node of the item has two children with the same identifier
RECURSIVE SiblingsUnique(_)
SiblingsUnique(item) ==
    /\ \A i, j \in 1 .. Len(item.children) :
           i # j => item.children[i].identifier # item.children[j].identifier
    /\ \A i \in 1 .. Len(item.children) : SiblingsUnique(item.children[i])

\* every child of the item is a leaf
Flat(item) == \A i \in 1 .. Len(item.children) : item.children[i].children = <<>>

\* the items the host can pass: fresh leaves, and a clone of the item it holds
\* while that item has no grandchildren
LeafPool == {new_leaf(i, 1) : i \in Ids}
Pool == LeafPool \cup (IF node # NoItem /\ Flat(node) THEN {node} ELSE {})

\* no node of the item has more than MaxChildren children
RECURSIVE Fits(_)
Fits(item) ==
    /\ Len(item.children) <= MaxChildren
    /\ \A i \in 1 .. Len(item.children) : Fits(item.children[i])

NoItemCall == [op |-> "none", identifier |-> 0, items |-> <<>>, index |-> 0,
               pre |-> NoItem, ok |-> TRUE, value |-> NoItem]

ItemNewLeaf(identifier) ==
    /\ call = NoItemCall
    /\ UNCHANGED <<renderVars, fl>>
    /\ node' = new_leaf(identifier, 1)
    /\ call' = [NoItemCall EXCEPT !.op = "new_leaf", !.identifier = identifier,
                                  !.pre = node, !.value = node']

ItemNew(identifier, children) ==
    LET r == new(identifier, 1, children)
    IN  /\ call = NoItemCall
        /\ UNCHANGED <<renderVars, fl>>
        /\ r.ok => Fits(r.value)
        /\ node' = IF r.ok THEN r.value ELSE node
        /\ call' = [NoItemCall EXCEPT !.op = "new", !.identifier = identifier,
                                      !.items = children, !.pre = node,
                                      !.ok = r.ok, !.value = r.value]

TreeNew(items) ==
    LET r == tree_new(items)
    IN  /\ call = NoItemCall
        /\ UNCHANGED <<renderVars, fl>>
        /\ node' = node
        /\ call' = [NoItemCall EXCEPT !.op = "tree_new", !.items = items,
                                      !.pre = node, !.ok = r.ok, !.value = r.value]

ItemAddChild(child) ==
    LET r == add_child(node, child)
    IN  /\ call = NoItemCall
        /\ UNCHANGED <<renderVars, fl>>
        /\ node # NoItem
        /\ Fits(r.value)
        /\ node' = r.value
        /\ call' = [NoItemCall EXCEPT !.op = "add_child", !.items = <<child>>,
                                      !.pre = node, !.ok = r.ok, !.value = r.value]

ItemChildMutAddChild(index, child) ==
    /\ call = NoItemCall
    /\ UNCHANGED <<renderVars, fl>>
    /\ node # NoItem
    /\ child_mut(node, index)
    /\ LET r == child_mut_add_child(node, index, child)
       IN  /\ Fits(r.value)
           /\ node' = r.value
           /\ call' = [NoItemCall EXCEPT !.op = "child_mut.add_child",
                                         !.items = <<child>>, !.index = index,
                                         !.pre = node, !.ok = r.ok, !.value = r.value]

ItemChildMutAssign(index, other) ==
    /\ call = NoItemCall
    /\ UNCHANGED <<renderVars, fl>>
    /\ node # NoItem
    /\ child_mut(node, index)
    /\ LET value == child_mut_assign(node, index, other)
       IN  /\ Fits(value)
           /\ node' = value
           /\ call' = [NoItemCall EXCEPT !.op = "child_mut.assign",
                                         !.items = <<other>>, !.index = index,
                                         !.pre = node, !.value = value]

Areas == [width : 0 .. 1, height : 0 .. MaxAreaHeight]

InitState ==
    /\ opened = {}
    /\ selected = <<>>
    /\ offset = 0
    /\ ensure_selected_in_view_on_next_render = FALSE
    /\ last = NoCall

Init ==
    /\ InitState
    /\ node = NoItem
    /\ call = NoItemCall
    /\ fl = <<>>

Next ==
    \/ last = NoCall /\ \E p \in Paths : select(p)
    \/ last = NoCall /\ \E p \in OpenPaths : open(p)
    \/ last = NoCall /\ \E p \in OpenPaths : close(p)
    \/ last = NoCall /\ \E p \in OpenPaths : toggle(p)
    \/ last = NoCall /\ scroll_up
    \/ last = NoCall /\ scroll_down
    \/ last = NoCall /\ \E items \in RenderTrees, area \in Areas : render(items, area)
    \/ Return

Spec == Init /\ [][Next]_vars

InitItem ==
    /\ node = NoItem
    /\ call = NoItemCall
    /\ InitState
    /\ fl = <<>>

\* the call returns to the host
ItemReturn ==
    /\ call # NoItemCall
    /\ call' = NoItemCall
    /\ UNCHANGED <<node, renderVars, fl>>

NextItem ==
    \/ \E i \in Ids : ItemNewLeaf(i)
    \/ \E i \in Ids, children \in SeqsUpTo(Pool, MaxChildren) : ItemNew(i, children)
    \/ \E items \in SeqsUpTo(Pool, MaxChildren) : TreeNew(items)
    \/ \E child \in Pool : ItemAddChild(child)
    \/ \E index \in 0 .. MaxChildren - 1, child \in LeafPool :
           ItemChildMutAddChild(index, child)
    \/ \E index \in 0 .. MaxChildren - 1, other \in Pool :
           ItemChildMutAssign(index, other)
    \/ ItemReturn

SpecItem == InitItem /\ [][NextItem]_vars

(***************************************************************************)
(* SpecFlatten: flatten as a function of a sibling-unique tree of up to    *)
(* three levels and a set of open paths.                                   *)
(***************************************************************************)
FlattenTrees ==
    LET leaves == {new_leaf(i, 1) : i \in Ids}
        level2 == {TreeItem(i, 1, c) : i \in Ids, c \in UniqueLists(leaves)}
        level1 == {TreeItem(i, 1, c) : i \in Ids, c \in UniqueLists(level2)}
    IN  {t : t \in {u \in UniqueLists(level1) : NodeCount(u) <= MaxFlattenNodes}}

FlattenPaths == {p \in SeqsUpTo(Ids, 3) : p # <<>>}

FlattenOpens == {o : o \in {u \in SUBSET FlattenPaths : Cardinality(u) <= MaxOpen}}

FlattenCall ==
    /\ ~fl.done
    /\ fl' = [fl EXCEPT !.rows = flatten(fl.open, fl.items, <<>>), !.done = TRUE]
    /\ UNCHANGED <<renderVars, itemVars>>

InitFlatten ==
    /\ fl \in [items : FlattenTrees, open : FlattenOpens, rows : {<<>>}, done : {FALSE}]
    /\ InitState
    /\ node = NoItem
    /\ call = NoItemCall

NextFlatten == FlattenCall

SpecFlatten == InitFlatten /\ [][NextFlatten]_vars

(***************************************************************************)
(* Nodes of a tree by position: a position is the sequence of child        *)
(* indices (1-based) leading from the root list to the node.               *)
(***************************************************************************)
RECURSIVE Positions(_)
Positions(items) ==
    UNION {{<<i>>} \cup {<<i>> \o q : q \in Positions(items[i].children)} :
           i \in 1 .. Len(items)}

RECURSIVE ItemAt(_, _)
ItemAt(items, q) ==
    IF Len(q) = 1 THEN items[q[1]] ELSE ItemAt(items[q[1]].children, Tail(q))

\* the identifiers from the root to the node at position q
RECURSIVE IdPath(_, _)
IdPath(items, q) ==
    IF Len(q) = 1 THEN <<items[q[1]].identifier>>
    ELSE <<items[q[1]].identifier>> \o IdPath(items[q[1]].children, Tail(q))

\* the paths of all proper ancestors of the node at q are open
AncestorsOpen(items, open_identifiers, q) ==
    \A k \in 1 .. Len(q) - 1 : IdPath(items, SubSeq(q, 1, k)) \in open_identifiers

\* q comes before r in depth-first pre-order
Before(q, r) ==
    \/ Len(q) < Len(r) /\ SubSeq(r, 1, Len(q)) = q
    \/ \E k \in 1 .. Min(Len(q), Len(r)) :
           /\ SubSeq(q, 1, k - 1) = SubSeq(r, 1, k - 1)
           /\ q[k] < r[k]

\* C1: flatten(open, tree, <<>>) of a sibling-unique tree is exactly the rows
\* of the nodes all of whose proper ancestors are open, each with its
\* root-to-node identifier path, in depth-first pre-order.
C1_FlattenExact ==
    fl.done =>
        LET shown == {q \in Positions(fl.items) : AncestorsOpen(fl.items, fl.open, q)}
            Rank(q) == Cardinality({r \in shown : Before(r, q)}) + 1
        IN  /\ Len(fl.rows) = Cardinality(shown)
            /\ \A q \in shown :
                   fl.rows[Rank(q)] = Flattened(IdPath(fl.items, q), ItemAt(fl.items, q))

\* a flattened tree with a row below an open node, a hidden node, an open leaf
\* and an open path below a closed node
C1_Witness ==
    /\ fl.done
    /\ Len(fl.rows) < NodeCount(fl.items)
    /\ \E i \in 1 .. Len(fl.rows) : depth(fl.rows[i]) = 1
    /\ \E q \in Positions(fl.items) :
           /\ IdPath(fl.items, q) \in fl.open
           /\ ItemAt(fl.items, q).children = <<>>
    /\ \E q \in Positions(fl.items) :
           /\ IdPath(fl.items, q) \in fl.open
           /\ ItemAt(fl.items, q).children # <<>>
           /\ ~AncestorsOpen(fl.items, fl.open, q)

(***************************************************************************)
(* TreeItem and Tree construction (SpecItem).                              *)
(***************************************************************************)
\* two of the given items have equal identifiers
HasDuplicate(items) ==
    \E i, j \in 1 .. Len(items) : i # j /\ items[i].identifier = items[j].identifier

\* C4: TreeItem::new and Tree::new return the duplicate-identifier error iff two
\* of the given items have equal identifiers; on error nothing is produced and
\* the host's item is as before, on success the children are the given items in
\* the given order.
C4_NewErrorsIffDuplicate ==
    call.op \in {"new", "tree_new"} =>
        /\ ~call.ok <=> HasDuplicate(call.items)
        /\ ~call.ok => call.value = NoItem /\ node = call.pre
        /\ call.ok => call.value.children = call.items
        /\ call.ok /\ call.op = "new" =>
               node = call.value /\ node.identifier = call.identifier

\* TreeItem::new was given two items with the same identifier out of an item
\* with children and a leaf
C4_Witness ==
    /\ call.op = "new"
    /\ ~call.ok
    /\ Len(call.items) = 2
    /\ call.items[1].children # <<>>

\* the node add_child was called on, before and after the call
AddChildTarget(item) ==
    IF call.op = "add_child" THEN item ELSE item.children[call.index + 1]

\* C5: add_child(child) fails iff child's identifier equals that of an existing
\* child, and then the children are unchanged; otherwise the children are the
\* old ones with child appended.
C5_AddChild ==
    call.op \in {"add_child", "child_mut.add_child"} =>
        LET before == AddChildTarget(call.pre)
            after == AddChildTarget(node)
            child == call.items[1]
        IN  /\ ~call.ok <=>
                   \E i \in 1 .. Len(before.children) :
                       before.children[i].identifier = child.identifier
            /\ ~call.ok => node = call.pre
            /\ call.ok =>
                   /\ after.children = Append(before.children, child)
                   /\ after.identifier = before.identifier
                   /\ call.op = "add_child" => node = [call.pre EXCEPT !.children = after.children]

\* add_child rejected a child whose identifier is that of the last of two children
C5_Witness ==
    /\ call.op = "add_child"
    /\ ~call.ok
    /\ Len(call.pre.children) = 2
    /\ call.pre.children[2].identifier = call.items[1].identifier
    /\ node.children = call.pre.children

\* C6: after any sequence of new_leaf, new, add_child and mutation through
\* child_mut no node has two children with the same identifier.
C6_SiblingsUnique == SiblingsUnique(node)

\* without the assignment through child_mut every item the host holds is
\* sibling-unique
C6_UniqueUnlessAssigned ==
    [][call'.op # "child_mut.assign" /\ SiblingsUnique(node) => SiblingsUnique(node')]_vars

(***************************************************************************)
(* Tree::render (Spec).  The formulas read the call recorded in `last`:    *)
(* its arguments, the TreeState it started from (last.pre) and the window  *)
(* it computed; the TreeState variables hold the state after the call.     *)
(***************************************************************************)
Rendered == last.op = "render"

\* the flattened sequence of the rendered tree
Rows == flatten(last.pre.opened, last.items, <<>>)

\* the render computed a viewport: non-empty sequence, non-zero area
ComputedViewport ==
    /\ Rendered
    /\ last.area.width > 0
    /\ last.area.height > 0
    /\ Rows # <<>>

\* the index of the row whose path is sel; 0 when there is none
RowIndex(rows, sel) ==
    IF \E i \in 0 .. Len(rows) - 1 : rows[i + 1].identifier = sel
    THEN CHOOSE i \in 0 .. Len(rows) - 1 : rows[i + 1].identifier = sel
    ELSE 0

\* the total height of rows s .. e-1
RECURSIVE HeightSum(_, _, _)
HeightSum(rows, s, e) ==
    IF s >= e THEN 0 ELSE rows[s + 1].item.height + HeightSum(rows, s + 1, e)

\* the end of the longest run of whole rows from s that fits in h
FitEnd(rows, s, h) ==
    CHOOSE e \in s .. Len(rows) :
        /\ HeightSum(rows, s, e) <= h
        /\ \A f \in s .. Len(rows) : HeightSum(rows, s, f) <= h => f <= e

\* C2: viewport invariant.  After a render that computed a window with the flag
\* set before the call and no row taller than the area, the selected row's
\* index (0 for an empty or stale selection) lies in [offset, offset + window).
C2_SelectedInView ==
    (/\ ComputedViewport
     /\ last.pre.ensure_selected_in_view_on_next_render
     /\ \A i \in 0 .. Len(Rows) - 1 : RowHeight(Rows, i) <= last.area.height)
        => LET index == RowIndex(Rows, last.pre.selected)
           IN  /\ offset <= index
               /\ index < offset + (last.end - last.start)

\* a render that scrolled down to a selected row other than the first
C2_Witness ==
    /\ ComputedViewport
    /\ last.pre.ensure_selected_in_view_on_next_render
    /\ \A i \in 0 .. Len(Rows) - 1 : RowHeight(Rows, i) <= last.area.height
    /\ RowIndex(Rows, last.pre.selected) = 2
    /\ offset > last.pre.offset
    /\ last.end - last.start = 2

\* C3: after any render over a non-empty flattened sequence with a non-zero
\* area, offset is in [0, len - 1].
C3_OffsetInRange ==
    ComputedViewport => offset \in 0 .. Len(Rows) - 1

\* the offset is in range after a render whose selected row is not taller than
\* the area, and after one that started with the flag cleared
C3_OffsetInRangeWhenSelectedFits ==
    (/\ ComputedViewport
     /\ \/ ~last.pre.ensure_selected_in_view_on_next_render
        \/ RowHeight(Rows, RowIndex(Rows, last.pre.selected)) <= last.area.height)
        => offset \in 0 .. Len(Rows) - 1

\* the row the reveal starts from: the offset clamped to the last row
ClampedOffset == Min(last.pre.offset, Len(Rows) - 1)

\* the flag was set and the selected row lies below the window that fits from
\* the clamped offset
SelectedBelowWindow ==
    /\ ComputedViewport
    /\ last.pre.ensure_selected_in_view_on_next_render
    /\ RowIndex(Rows, last.pre.selected) >=
           FitEnd(Rows, ClampedOffset, last.area.height)

\* the selected row is the last row of the window, and offset is the smallest
\* start not below the clamped offset from which the rows up to it fit
MinimalScroll ==
    LET index == RowIndex(Rows, last.pre.selected)
    IN  /\ last.end = index + 1
        /\ offset <= index
        /\ offset >= ClampedOffset
        /\ HeightSum(Rows, offset, index + 1) <= last.area.height
        /\ \A s \in ClampedOffset .. offset - 1 :
               HeightSum(Rows, s, index + 1) > last.area.height

\* C7: minimal scroll on reveal.
C7_MinimalScroll == SelectedBelowWindow => MinimalScroll

\* the scroll is minimal whenever the selected row is not taller than the area
C7_MinimalScrollWhenSelectedFits ==
    (/\ SelectedBelowWindow
     /\ RowHeight(Rows, RowIndex(Rows, last.pre.selected)) <= last.area.height)
        => MinimalScroll

\* C8: select sets selected and the flag; the flag stays set through every call
\* but a render that computes a viewport, which leaves it cleared; render never
\* sets a cleared flag.
C8_RevealLifecycle ==
    /\ last.op = "select" =>
           selected = last.arg /\ ensure_selected_in_view_on_next_render
    /\ (/\ last.op # "none"
        /\ last.pre.ensure_selected_in_view_on_next_render
        /\ ~ComputedViewport)
           => ensure_selected_in_view_on_next_render
    /\ ComputedViewport => ~ensure_selected_in_view_on_next_render
    /\ (Rendered /\ ~last.pre.ensure_selected_in_view_on_next_render)
           => ~ensure_selected_in_view_on_next_render

\* a render that computed a viewport with the flag set by an earlier select
C8_Witness ==
    /\ ComputedViewport
    /\ last.pre.ensure_selected_in_view_on_next_render
    /\ last.pre.selected # <<>>
    /\ ~ensure_selected_in_view_on_next_render

\* C9: a render of an empty sequence or into an area without width or height
\* leaves offset, selected, opened and the flag as they were.
C9_EarlyReturnKeepsState ==
    (Rendered /\ (last.area.width = 0 \/ last.area.height = 0 \/ Rows = <<>>))
        => State = last.pre

\* a render into an area without width, of a non-empty tree, with the flag set
\* and a scrolled offset
C9_Witness ==
    /\ Rendered
    /\ last.area.width = 0
    /\ last.area.height > 0
    /\ last.items # <<>>
    /\ last.pre.ensure_selected_in_view_on_next_render
    /\ last.pre.offset > 0
    /\ State = last.pre

\* the selection is not empty and is the path of no row
StaleSelection ==
    /\ ComputedViewport
    /\ last.pre.selected # <<>>
    /\ \A i \in 1 .. Len(Rows) : Rows[i].identifier # last.pre.selected

\* offset, window and flag are those of a render with selected index 0
AsIfIndexZero ==
    LET v == Viewport(Rows, last.area.height, last.pre.offset, <<>>,
                      last.pre.ensure_selected_in_view_on_next_render)
    IN  /\ ~last.panic
        /\ offset = v.start
        /\ last.start = v.start
        /\ last.end = v.end
        /\ ~ensure_selected_in_view_on_next_render
        /\ selected = last.pre.selected

\* C10: with a stale selection render computes offset, window and flag as if
\* the selected index were 0 - so with the flag set the offset becomes 0 - and
\* leaves the selected path unchanged.
C10_StaleSelection ==
    StaleSelection =>
        /\ AsIfIndexZero
        /\ last.pre.ensure_selected_in_view_on_next_render => offset = 0

\* with a stale selection the render is that of index 0
C10_StaleAsIfIndexZero == StaleSelection => AsIfIndexZero

\* C11: in the expand-then-shrink phase (flag set, selected row beyond the
\* greedy window) the shrink loop never moves start past the selected row: for
\* all row heights and every area height >= 1 the committed offset is at most
\* the selected index, and the selected row is in the window.
C11_ShrinkStopsAtSelected ==
    SelectedBelowWindow =>
        LET index == RowIndex(Rows, last.pre.selected)
        IN  /\ offset <= index
            /\ index < last.end

\* the shrink loop stops at the selected row whenever that row is not taller
\* than the area
C11_ShrinkStopsAtSelectedWhenItFits ==
    (/\ SelectedBelowWindow
     /\ RowHeight(Rows, RowIndex(Rows, last.pre.selected)) <= last.area.height)
        => LET index == RowIndex(Rows, last.pre.selected)
           IN  /\ offset <= index
               /\ index < last.end

\* C12: height budget.  After every render that computes a window, with or
\* without the flag and for all row heights, the painted rows are the rows of
\* [offset, end) and their heights add up to at most the area's height; when
\* the flag was not set the window is the longest run of whole rows from
\* offset that fits.
C12_HeightBudget ==
    ComputedViewport =>
        /\ last.painted = {i \in 0 .. Len(Rows) - 1 : offset <= i /\ i < last.end}
        /\ last.current_height = HeightSum(Rows, offset, last.end)
        /\ HeightSum(Rows, offset, last.end) <= last.area.height
        /\ ~last.pre.ensure_selected_in_view_on_next_render
               => last.end = FitEnd(Rows, offset, last.area.height)

\* a render without the flag whose window holds several rows, stops before the
\* end of the rows, and whose rows include one taller than the area
C12_Witness ==
    /\ ComputedViewport
    /\ ~last.pre.ensure_selected_in_view_on_next_render
    /\ Cardinality(last.painted) >= 2
    /\ last.end < Len(Rows)
    /\ \E i \in 0 .. Len(Rows) - 1 : RowHeight(Rows, i) > last.area.height

\* a render with the flag whose shrink loop dropped rows to make room
C12_WitnessShrunk ==
    /\ ComputedViewport
    /\ SelectedBelowWindow
    /\ offset > ClampedOffset
    /\ last.painted # {}

\* C13: render never indexes outside the flattened rows and never underflows
\* its window arithmetic.  For every prior offset, selection, flag value, list
\* of row heights and area height >= 1: each read visible[end] has end < len
\* and each read visible[start] has start < end (so neither panics), and
\* start <= end <= len holds when end - start is taken.
C13_NoPanic ==
    (Rendered /\ last.visible # <<>>) =>
        /\ ~last.panic
        /\ last.ordered
        /\ ~last.underflow
        /\ last.computed
        /\ last.start <= last.end
        /\ last.end <= Len(last.visible)

\* a render with the flag set whose reveal loop ran, over rows that include a
\* row of height 0 and a row taller than the area, from an offset beyond the
\* last row
C13_Witness ==
    /\ SelectedBelowWindow
    /\ last.pre.offset >= Len(Rows)
    /\ \E i \in 0 .. Len(Rows) - 1 : RowHeight(Rows, i) = 0
    /\ \E i \in 0 .. Len(Rows) - 1 : RowHeight(Rows, i) > last.area.height

\* C14: when the flag is not set at the start of a render that computes a
\* window, the new offset is min(old offset, len - 1) whatever the selected
\* path, even if the selected row ends up outside the window; render never
\* changes opened or selected.
C14_OffsetKeptWithoutFlag ==
    /\ Rendered => (opened = last.pre.opened /\ selected = last.pre.selected)
    /\ (ComputedViewport /\ ~last.pre.ensure_selected_in_view_on_next_render)
           => offset = Min(last.pre.offset, Len(Rows) - 1)

\* a render without the flag that leaves the selected row, which is among the
\* rows, outside the window
C14_Witness ==
    /\ ComputedViewport
    /\ ~last.pre.ensure_selected_in_view_on_next_render
    /\ \E i \in 0 .. Len(Rows) - 1 : Rows[i + 1].identifier = last.pre.selected
    /\ LET index == RowIndex(Rows, last.pre.selected)
       IN  index < offset \/ index >= last.end

====
